---------------------------- MODULE Spec2Model ----------------------------
(***************************************************************************)
(* CoolPath: heat-cost graph model and dual-objective routing.             *)
(*                                                                         *)
(* Numbers are fixed point.  A length is a whole number of metres; a       *)
(* green_score and a hei are in tenths (1.0 is One = 10); a cost           *)
(* (cool_cost, current_cost) is in tenths of a metre, so that              *)
(*     cost = length * (1 + hei * m)   becomes   length * (One + hei * m)  *)
(* exactly.  An attribute value is a record [k, v]: k is its Python kind,  *)
(* v its number.                                                           *)
(***************************************************************************)
EXTENDS Integers, Sequences, FiniteSets, TLC

VARIABLES
    pc,              \* position of the program being run
    G,               \* the graph: G_final in phase 2, G in the app and in test_route
    graphml,         \* game_ready_city.graphml: the persisted edges
    scenario,        \* app: the sidebar radio's value
    heat_multiplier, \* app: the multiplier of the last rerun
    session_state,   \* app: st.session_state, a dictionary
    node_xy,         \* app: node id -> (lat, lon), in insertion order
    ui,              \* app: what the last rerun showed and drew
    recomputes,      \* app: how many times the recompute loop has run
    sp_call,         \* the (source, target) nx.shortest_path was last called with
    gdf_scored,      \* phase 2: the scored GeoDataFrame
    edges,           \* phase 2: the index of the original graph's edges
    gdf_scored_indexed, \* phase 2: how the scored frame got its (u, v, key) index
    query,           \* _nearest_node: the query point
    nearest,         \* _nearest_node: what it returned
    locals           \* test_route: the script's variables

appVars == <<scenario, heat_multiplier, session_state, node_xy, ui, recomputes>>

phase2Vars == <<gdf_scored, edges, gdf_scored_indexed>>

nearestVars == <<query, nearest>>

vars == <<pc, G, graphml, sp_call, appVars, phase2Vars, nearestVars, locals>>

-----------------------------------------------------------------------------
(* Bounds of the model *)

MaxEdges == 2
MaxReruns == 2
MaxLookupNodes == 3

-----------------------------------------------------------------------------
(* Program constants *)

One == 10
DefaultLength == 10
DefaultGreen == 1
DefaultHei == 5
Phase2Penalty == 10
StandardMultiplier == 10
HeatwaveMultiplier == 30
None == 0
StartIndex == 40
EndIndex == 90

-----------------------------------------------------------------------------
(* Attribute values as Python sees them *)

Num(n) == [k |-> "num", v |-> n]
NumStr(n) == [k |-> "numstr", v |-> n]
NaN == [k |-> "nan", v |-> 0]
NaNStr == [k |-> "nanstr", v |-> 0]
Str == [k |-> "str", v |-> 0]
ListStr(n) == [k |-> "liststr", v |-> n]
Missing == [k |-> "missing", v |-> 0]

\* data.get(key, default)
Get(x, default) == IF x.k = "missing" THEN default ELSE x

\* float(x) raises on a string that is no number
FloatRaises(x) == x.k \in {"str", "liststr", "missing"}

\* float(x) where it does not raise
Float(x) ==
    CASE x.k = "num" -> x
      [] x.k = "numstr" -> Num(x.v)
      [] x.k = "nan" -> NaN
      [] x.k = "nanstr" -> NaN
      [] OTHER -> NaN

\* 1.0 - green_score on a float; a string operand raises TypeError
SubRaises(x) == x.k \notin {"num", "nan"}

OneMinus(x) == IF x.k = "nan" THEN NaN ELSE Num(One - x.v)

\* a cost that leaves the heat penalty out
CostWithoutPenalty(length, hei, m) ==
    IF length.k = "nan" \/ hei.k = "nan" THEN NaN ELSE Num(length.v * One)

\* length * (1 + hei * m) on floats, in tenths of a metre
Cost(length, hei, m) ==
    IF length.k = "nan" \/ hei.k = "nan"
    THEN NaN
    ELSE Num(length.v * (One + hei.v * m))

\* a length seen as a cost: the same number of metres, in tenths
AsCost(length) == IF length.k = "nan" THEN NaN ELSE Num(One * length.v)

-----------------------------------------------------------------------------
(* An edge is a record: its end nodes u, v, its parallel-edge key, and its  *)
(* attribute dictionary's entries.  A graph's edges are a sequence, in the  *)
(* iteration order of G.edges(keys=True, data=True).                       *)

Edge(u, v, key, length, green_score, hei, cool_cost, current_cost) ==
    [u |-> u, v |-> v, key |-> key, length |-> length,
     green_score |-> green_score, hei |-> hei, cool_cost |-> cool_cost,
     current_cost |-> current_cost]

-----------------------------------------------------------------------------
(* phase2_processing: the HEI / cool_cost derivation loop *)

HeiOfGreen(green_score) == OneMinus(green_score)

\* a derivation that writes the values it read, defaults included, back
DeriveEdgeStoring(data) ==
    LET green_score == Get(data.green_score, Num(DefaultGreen))
    IN  IF SubRaises(green_score)
        THEN [ok |-> FALSE, data |-> data]
        ELSE LET hei == HeiOfGreen(green_score)
                 lraw == Get(data.length, Num(DefaultLength))
             IN  IF FloatRaises(lraw)
                 THEN [ok |-> FALSE, data |-> [data EXCEPT !.hei = hei]]
                 ELSE [ok |-> TRUE,
                       data |-> [data EXCEPT
                                   !.hei = hei,
                                   !.green_score = green_score,
                                   !.length = Float(lraw),
                                   !.cool_cost =
                                       Cost(Float(lraw), hei, Phase2Penalty)]]

DeriveEdge(data) ==
    LET green_score == Get(data.green_score, Num(DefaultGreen))
    IN  IF SubRaises(green_score)
        THEN [ok |-> FALSE, data |-> data]
        ELSE LET hei == HeiOfGreen(green_score)
                 d1 == [data EXCEPT !.hei = hei]
                 lraw == Get(data.length, Num(DefaultLength))
             IN  IF FloatRaises(lraw)
                 THEN [ok |-> FALSE, data |-> d1]
                 ELSE [ok |-> TRUE,
                       data |-> [d1 EXCEPT !.cool_cost =
                                     Cost(Float(lraw), hei, Phase2Penalty)]]

\* phase2_processing: "Ensure cool_cost is numeric for all edges"
EnforceEdge(data) ==
    IF ~FloatRaises(data.cool_cost)
    THEN [ok |-> TRUE, data |-> [data EXCEPT !.cool_cost = Float(data.cool_cost)]]
    ELSE LET lraw == Get(data.length, Num(DefaultLength))
         IN  IF FloatRaises(lraw)
             THEN [ok |-> FALSE, data |-> data]
             ELSE [ok |-> TRUE,
                   data |-> [data EXCEPT !.cool_cost = AsCost(Float(lraw))]]

-----------------------------------------------------------------------------
(* GraphML persistence: save_graphml writes every attribute as text;        *)
(* load_graphml converts 'length' back to float and leaves the attributes   *)
(* it does not know (green_score, hei, cool_cost, current_cost) as text.    *)

ToText(x) ==
    CASE x.k = "num" -> NumStr(x.v)
      [] x.k = "nan" -> NaNStr
      [] OTHER -> x

SaveEdge(data) ==
    [data EXCEPT !.length = ToText(data.length),
                 !.green_score = ToText(data.green_score),
                 !.hei = ToText(data.hei),
                 !.cool_cost = ToText(data.cool_cost),
                 !.current_cost = ToText(data.current_cost)]

save_graphml(es) == [i \in 1..Len(es) |-> SaveEdge(es[i])]

LoadEdge(data) ==
    IF data.length.k = "missing"
    THEN [ok |-> TRUE, data |-> data]
    ELSE IF FloatRaises(data.length)
    THEN [ok |-> FALSE, data |-> data]
    ELSE [ok |-> TRUE, data |-> [data EXCEPT !.length = Float(data.length)]]

\* A per-edge loop over es, where rs[i] = [ok, data] is what the loop body does
\* to es[i]: a body that raises (ok = FALSE) stops the loop and leaves the
\* edges before it changed.
EdgePass(rs, es) ==
    LET raised == {i \in 1..Len(es) : ~rs[i].ok}
        stop == IF raised = {} THEN Len(es)
                ELSE CHOOSE i \in raised : \A j \in raised : i <= j
    IN  [ok |-> raised = {},
         edges |-> [i \in 1..Len(es) |-> IF i <= stop THEN rs[i].data ELSE es[i]]]

Derived(es) == [i \in 1..Len(es) |-> DeriveEdge(es[i])]

Enforced(es) == [i \in 1..Len(es) |-> EnforceEdge(es[i])]

Loaded(es) == [i \in 1..Len(es) |-> LoadEdge(es[i])]

-----------------------------------------------------------------------------
(* app: the per-rerun edge cost recompute loop *)

AppLength(data) ==
    LET raw == Get(data.length, Num(DefaultLength))
    IN  IF FloatRaises(raw) THEN Num(DefaultLength) ELSE Float(raw)

AppHei(data) ==
    LET raw == Get(data.hei, Num(DefaultHei))
    IN  IF FloatRaises(raw) THEN Num(DefaultHei) ELSE Float(raw)

\* a recompute that takes the cost it stored last time as the edge's length
RecomputeEdgeDrift(data, m) ==
    [data EXCEPT !.current_cost =
        Cost(IF data.current_cost.k = "num"
             THEN Num(data.current_cost.v \div One) ELSE AppLength(data),
             AppHei(data), m)]

\* a recompute that leaves an edge's cost alone once it has one
RecomputeEdgeOnce(data, m) ==
    IF data.current_cost.k = "missing"
    THEN [data EXCEPT !.current_cost = Cost(AppLength(data), AppHei(data), m)]
    ELSE data

RecomputeEdge(data, m) ==
    [data EXCEPT !.current_cost = Cost(AppLength(data), AppHei(data), m)]

RecomputePass(es, m) == [i \in 1..Len(es) |-> RecomputeEdge(es[i], m)]

\* a multiplier that ignores the radio
MultiplierFixed(sc) == StandardMultiplier

Multiplier(sc) ==
    IF sc = "Heatwave" THEN HeatwaveMultiplier ELSE StandardMultiplier

Scenarios == {"Standard", "Heatwave"}

-----------------------------------------------------------------------------
(* The graph: G.nodes is the node list in iteration order, G.edges the     *)
(* edge sequence.                                                          *)

Range(f) == {f[i] : i \in DOMAIN f}

NodeSet(g) == Range(g.nodes)

\* the nodes an edge leads to from n, edge direction kept
OutNeighbors(g, n) == {e.v : e \in {x \in Range(g.edges) : x.u = n}}

\* the successors and the predecessors of n
Neighbors(g, n) ==
    {e.v : e \in {x \in Range(g.edges) : x.u = n}}
        \cup {e.u : e \in {x \in Range(g.edges) : x.v = n}}

\* networkx _plain_bfs over successors and predecessors
RECURSIVE PlainBfs(_, _, _)
PlainBfs(g, seen, frontier) ==
    IF frontier = {}
    THEN seen
    ELSE LET next == (UNION {Neighbors(g, n) : n \in frontier}) \ seen
         IN  PlainBfs(g, seen \cup next, next)

\* The positions in G.nodes at which nx.weakly_connected_components starts a
\* component: the node there is in the component of no earlier node
ComponentStarts(g) ==
    {i \in 1..Len(g.nodes) :
        Range(SubSeq(g.nodes, 1, i - 1))
            \cap PlainBfs(g, {g.nodes[i]}, {g.nodes[i]}) = {}}

\* nx.weakly_connected_components(G): the components in the order their first
\* node comes in G.nodes
weakly_connected_components(g) ==
    LET starts == ComponentStarts(g)
        at == [k \in 1..Cardinality(starts) |->
                 CHOOSE i \in starts : Cardinality({j \in starts : j < i}) = k - 1]
    IN  [k \in 1..Cardinality(starts) |->
            PlainBfs(g, {g.nodes[at[k]]}, {g.nodes[at[k]]})]

\* max(components, key=len): the first of the largest
MaxByLen(cs) ==
    cs[CHOOSE i \in 1..Len(cs) :
          /\ \A j \in 1..Len(cs) : Cardinality(cs[j]) <= Cardinality(cs[i])
          /\ \A j \in 1..(i - 1) : Cardinality(cs[j]) < Cardinality(cs[i])]

-----------------------------------------------------------------------------
(* Shortest paths.  networkx reads a multigraph's weight between two nodes *)
(* as the least weight of the parallel edges, a missing attribute as 1.    *)
(* Weights here are numbers (never NaN, never negative): the graphs the    *)
(* routing specifications start from carry valid lengths and scores.       *)

EdgeWeight(data, weight) ==
    IF data[weight].k = "missing"
    THEN (IF weight = "length" THEN 1 ELSE One)
    ELSE data[weight].v

Parallel(g, a, b) == {e \in Range(g.edges) : e.u = a /\ e.v = b}

SetMin(S) == CHOOSE x \in S : \A y \in S : x <= y

PairWeight(g, a, b, weight) ==
    SetMin({EdgeWeight(e, weight) : e \in Parallel(g, a, b)})

RECURSIVE PathWeightFrom(_, _, _, _)
PathWeightFrom(g, path, weight, i) ==
    IF i >= Len(path)
    THEN 0
    ELSE PairWeight(g, path[i], path[i + 1], weight)
             + PathWeightFrom(g, path, weight, i + 1)

\* nx.path_weight(G, path, weight)
path_weight(g, path, weight) == PathWeightFrom(g, path, weight, 1)

Successors(g, n) == {e.v : e \in {x \in Range(g.edges) : x.u = n}}

\* every simple path that extends a path of the frontier along edge direction
RECURSIVE Extend(_, _, _)
Extend(g, found, frontier) ==
    IF frontier = {}
    THEN found
    ELSE LET next == UNION {{Append(p, n) :
                               n \in Successors(g, p[Len(p)]) \ Range(p)} :
                            p \in frontier}
         IN  Extend(g, found \cup next, next)

SimplePaths(g, s, t) == {p \in Extend(g, {<<s>>}, {<<s>>}) : p[Len(p)] = t}

\* a search that returns some path, not a least-weight one
AnyPaths(g, s, t, weight) == SimplePaths(g, s, t)

\* The paths nx.shortest_path(G, s, t, weight) may return: a least-weight path
\* (which of several equal ones is the library's choice).  Empty: no path.
ShortestPaths(g, s, t, weight) ==
    LET ps == SimplePaths(g, s, t)
    IN  {p \in ps : \A q \in ps :
                        path_weight(g, p, weight) <= path_weight(g, q, weight)}

-----------------------------------------------------------------------------
(* app: _haversine and _nearest_node.  A coordinate is a grid point <<i, j>> *)
(* with i, j in 0..2: latitude 34.000, 34.001, 34.003 and longitude         *)
(* -118.000, -118.001, -118.003.  HaversineTable holds _haversine between   *)
(* every two grid points, in millimetres; on this grid two distances from   *)
(* one point compare in millimetres as they do in floating point.           *)

Grid == (0..2) \X (0..2)

HaversineTable ==
   << <<0, 92185, 276554, 111195, 144438, 298070, 333585, 346087, 433311>>,
      <<92185, 0, 184370, 144438, 111195, 215305, 346087, 333585, 381143>>,
      <<276554, 184370, 0, 298070, 215305, 111195, 433311, 381143, 333585>>,
      <<111195, 144438, 298070, 0, 92184, 276551, 222390, 240738, 354875>>,
      <<144438, 111195, 215305, 92184, 0, 184367, 240738, 222390, 288873>>,
      <<298070, 215305, 111195, 276551, 184367, 0, 354875, 288873, 222390>>,
      <<333585, 346087, 433311, 222390, 240738, 354875, 0, 92182, 276545>>,
      <<346087, 333585, 381143, 240738, 222390, 288873, 92182, 0, 184363>>,
      <<433311, 381143, 333585, 354875, 288873, 222390, 276545, 184363, 0>> >>

GridIndex(pt) == pt[1] * 3 + pt[2] + 1

_haversine(p, q) == HaversineTable[GridIndex(p)][GridIndex(q)]

Inf == [k |-> "inf", v |-> 0]

\* d < best_dist, best_dist a float that may be +infinity
DistLess(d, best_dist) == best_dist.k = "inf" \/ d < best_dist.v

DistLessEq(d, best_dist) == best_dist.k = "inf" \/ d <= best_dist.v

Closer(d, best_dist) == DistLess(d, best_dist)

\* the scan of _nearest_node from entry i on; node_xy_dict is a sequence of
\* [id, pt] in the dictionary's iteration order
RECURSIVE NearestScan(_, _, _, _, _)
NearestScan(pt, node_xy_dict, i, best_node, best_dist) ==
    IF i > Len(node_xy_dict)
    THEN [node |-> best_node, dist |-> best_dist]
    ELSE LET d == _haversine(pt, node_xy_dict[i].pt)
         IN  IF Closer(d, best_dist)
             THEN NearestScan(pt, node_xy_dict, i + 1, node_xy_dict[i].id, Num(d))
             ELSE NearestScan(pt, node_xy_dict, i + 1, best_node, best_dist)

_nearest_node(pt, node_xy_dict) == NearestScan(pt, node_xy_dict, 1, None, Inf)

InNodeXY(n, nxy) == \E i \in 1..Len(nxy) : nxy[i].id = n

-----------------------------------------------------------------------------
(* app: dictionaries (st.session_state) *)

EmptyDict == [x \in {} |-> 0]

DictSet(d, key, val) ==
    [x \in DOMAIN d \cup {key} |-> IF x = key THEN val ELSE d[x]]

DictGet(d, key, default) == IF key \in DOMAIN d THEN d[key] ELSE default

-----------------------------------------------------------------------------
(* The variables of the programs a specification does not run *)

EmptyMap == [lines |-> {}, markers |-> {}]

NoQuery == <<>>

NoFrame == [how |-> "none", index |-> <<>>]

AppIdle ==
    /\ scenario = "Standard"
    /\ heat_multiplier = StandardMultiplier
    /\ session_state = EmptyDict
    /\ node_xy = <<>>
    /\ ui = [error |-> FALSE, warning |-> FALSE, len_fast |-> 0, len_cool |-> 0,
             draw |-> EmptyMap]
    /\ recomputes = 0

Phase2Idle ==
    /\ gdf_scored = [multi_index |-> FALSE, columns |-> FALSE, rows |-> <<>>]
    /\ edges = <<>>
    /\ gdf_scored_indexed = NoFrame

NearestIdle ==
    /\ query = <<0, 0>>
    /\ nearest = [node |-> None, dist |-> Inf]

ScriptIdle == locals = EmptyDict

-----------------------------------------------------------------------------
(* app: the routing block of a rerun *)

\* What the try block can end with.  ok = FALSE: shortest_path raised (a node
\* not in G, or no path), and the except branch ran.
RouteOutcomes(g, s, t) ==
    LET fast == ShortestPaths(g, s, t, "length")
        cool == ShortestPaths(g, s, t, "current_cost")
    IN  IF s \notin NodeSet(g) \/ t \notin NodeSet(g) \/ fast = {}
        THEN {[ok |-> FALSE, route_fast |-> <<>>, route_cool |-> <<>>,
               len_fast |-> 0, len_cool |-> 0]}
        ELSE {[ok |-> TRUE, route_fast |-> a, route_cool |-> b,
               len_fast |-> path_weight(g, a, "length"),
               len_cool |-> path_weight(g, b, "length")] :
                 a \in fast, b \in cool}

\* app: "Draw Routes if they exist"
DrawVerifyMarker(route_fast, nxy) ==
    Len(route_fast) > 0 /\ InNodeXY(route_fast[1], nxy)

Render(ss, nxy) ==
    IF "start" \notin DOMAIN ss
    THEN [lines |-> {}, markers |-> {}]
    ELSE LET route_fast == DictGet(ss, "route_fast", <<>>)
             route_cool == DictGet(ss, "route_cool", <<>>)
         IN  [lines |-> (IF Len(route_fast) > 1 THEN {"fast"} ELSE {})
                          \cup (IF Len(route_cool) > 1 THEN {"cool"} ELSE {}),
              markers |-> (IF Len(route_fast) > 1
                           THEN {"Start", "Destination"} ELSE {})
                          \cup (IF DrawVerifyMarker(route_fast, nxy)
                                THEN {"Verify"} ELSE {})]

\* a recompute loop that runs only when the radio's value changed
RunsOnSwitchOnly(ss, sc) == "start" \in DOMAIN ss /\ sc # scenario

\* app: the main logic, recompute loop included, runs under
\* "if 'start' in st.session_state"
RunsRecompute(ss, sc) == "start" \in DOMAIN ss

\* One run of the script, top to bottom: sc is the radio's value, ss the
\* session state as the sidebar buttons left it.
Rerun(sc, ss) ==
    /\ recomputes < MaxReruns
    /\ scenario' = sc
    /\ heat_multiplier' = Multiplier(sc)
    /\ UNCHANGED <<pc, graphml, node_xy, phase2Vars, nearestVars, locals>>
    /\ IF RunsRecompute(ss, sc)
       THEN LET g == [G EXCEPT !.edges = RecomputePass(G.edges, Multiplier(sc))]
            IN  /\ G' = g
                /\ recomputes' = recomputes + 1
                /\ sp_call' = <<ss.start, ss.end>>
                /\ \E out \in RouteOutcomes(g, ss.start, ss.end) :
                     LET ss2 == DictSet(DictSet(ss, "route_fast", out.route_fast),
                                        "route_cool", out.route_cool)
                     IN  /\ session_state' = ss2
                         /\ ui' = [error |-> ~out.ok,
                                   warning |-> Len(out.route_fast) < 2
                                                 \/ Len(out.route_cool) < 2,
                                   len_fast |-> out.len_fast,
                                   len_cool |-> out.len_cool,
                                   draw |-> Render(ss2, node_xy)]
       ELSE /\ UNCHANGED <<G, recomputes>>
            /\ sp_call' = NoQuery
            /\ session_state' = ss
            /\ ui' = [error |-> FALSE, warning |-> FALSE, len_fast |-> 0,
                      len_cool |-> 0, draw |-> Render(ss, node_xy)]

\* The user picks the other scenario
SelectScenario ==
    \E sc \in Scenarios \ {scenario} : Rerun(sc, session_state)

\* The user changes a widget that is neither the radio nor a button
OtherWidget == Rerun(scenario, session_state)

\* the nodes _nearest_node can return for some point of the grid
Snapped(nxy) ==
    {n \in {nxy[i].id : i \in 1..Len(nxy)} \cup {None} :
        \E p \in Grid : _nearest_node(p, nxy).node = n}

\* "Use These Coordinates": the four number inputs hold some start and end
\* point, each snapped by _nearest_node
UseCoordinates ==
    IF Len(node_xy) = 0
    THEN Rerun(scenario, session_state)
    ELSE \E start_node \in Snapped(node_xy), end_node \in Snapped(node_xy) :
             IF start_node = None \/ end_node = None
             THEN Rerun(scenario, session_state)
             ELSE Rerun(scenario,
                        DictSet(DictSet(session_state, "start", start_node),
                                "end", end_node))

\* "Generate Random Route": two nodes of the largest weakly-connected component
GenerateRandom ==
    LET comps == weakly_connected_components(G)
        pool == IF Len(comps) = 0 THEN NodeSet(G) ELSE MaxByLen(comps)
    IN  \E a \in pool, b \in pool :
            Rerun(scenario, DictSet(DictSet(session_state, "start", a), "end", b))

-----------------------------------------------------------------------------
(* The graphs the routing specifications start from: a topology, each edge *)
(* given a (length, green_score) pair, run through phase 2's derivation    *)
(* and saved; the app loads the saved file.                                *)

Topologies ==
    { [nodes |-> <<1, 2, 3>>, edges |-> <<(<<1, 2, 0>>), <<2, 3, 0>>, <<1, 3, 0>>>>],
      [nodes |-> <<1, 2, 3, 4>>, edges |-> <<(<<1, 2, 0>>), <<2, 1, 0>>, <<3, 4, 0>>>>],
      [nodes |-> <<1, 2, 3>>, edges |-> <<(<<1, 2, 0>>), <<1, 2, 1>>, <<2, 3, 0>>>>] }

\* (length in metres, green_score in tenths)
AttrPairs == {<<100, 10>>, <<200, 0>>, <<250, 5>>}

Phase2Input(top, attrs) ==
    [i \in 1..Len(top) |->
        Edge(top[i][1], top[i][2], top[i][3], Num(attrs[i][1]), Num(attrs[i][2]),
             Missing, Missing, Missing)]

\* phase 2 from the derivation loop to save_graphml, when nothing raises
Phase2File(es) ==
    save_graphml(EdgePass(Enforced(EdgePass(Derived(es), es).edges),
                          EdgePass(Derived(es), es).edges).edges)

load_graphml(file) == EdgePass(Loaded(file), file)

AppGraphs ==
    {[nodes |-> t.nodes,
      edges |-> load_graphml(Phase2File(Phase2Input(t.edges, a))).edges] :
        t \in Topologies, a \in [1..3 -> AttrPairs]}

NodePoint(n) == <<(n - 1) \div 3, (n - 1) % 3>>

\* node_xy as load_data builds it from the GeoJSON: every node of the graph;
\* or, the GeoJSON being another file than the graph, one node short and one
\* node more; or empty when the file cannot be read
NodeXYs(g) ==
    { [i \in 1..Len(g.nodes) |-> [id |-> g.nodes[i], pt |-> NodePoint(g.nodes[i])]],
      [i \in 1..Len(g.nodes) |->
          [id |-> g.nodes[i] + 1, pt |-> NodePoint(g.nodes[i] + 1)]],
      <<>> }

\* The state after the page's first run: the radio on its first option, no
\* endpoint chosen, nothing recomputed
AppInit ==
    /\ pc = "app"
    /\ G \in AppGraphs
    /\ graphml = <<>>
    /\ scenario = "Standard"
    /\ heat_multiplier = StandardMultiplier
    /\ session_state = EmptyDict
    /\ node_xy \in NodeXYs(G)
    /\ ui = [error |-> FALSE, warning |-> FALSE, len_fast |-> 0, len_cool |-> 0,
             draw |-> EmptyMap]
    /\ recomputes = 0
    /\ sp_call = NoQuery
    /\ Phase2Idle
    /\ NearestIdle
    /\ ScriptIdle

AppNext ==
    \/ UseCoordinates
    \/ GenerateRandom
    \/ SelectScenario
    \/ OtherWidget

SpecApp == AppInit /\ [][AppNext]_vars

-----------------------------------------------------------------------------
(* The cost pipeline on edge attributes: phase 2 derives hei and cool_cost  *)
(* and saves the graph; the app loads the file and recomputes current_cost  *)
(* under the scenario's multiplier.  The scored GeoJSON and the GraphML     *)
(* file are inputs from outside: their attributes may be anything.         *)

Phase2Lengths == {Num(100), Num(0), Num(-5), Missing, Str}

Phase2Greens == {Num(0), Num(5), Num(10), Num(15), Num(-5), Missing, Str, NaN}

FileLengths == {NumStr(100), Missing, Str}

FileHeis == {NumStr(5), Missing, Str}

ChainNodes(n) == [i \in 1..(n + 1) |-> i]

NoGraph == [nodes |-> <<>>, edges |-> <<>>]

CostInit ==
    /\ AppIdle
    /\ sp_call = NoQuery
    /\ Phase2Idle
    /\ NearestIdle
    /\ ScriptIdle
    /\ \/ /\ pc = "phase2"
          /\ graphml = <<>>
          /\ \E ls \in [1..MaxEdges -> Phase2Lengths],
                gs \in [1..MaxEdges -> Phase2Greens] :
                G = [nodes |-> ChainNodes(MaxEdges),
                     edges |-> [i \in 1..MaxEdges |->
                                  Edge(i, i + 1, 0, ls[i], gs[i],
                                       Missing, Missing, Missing)]]
       \/ /\ pc = "file"
          /\ G = NoGraph
          /\ \E ls \in [1..MaxEdges -> FileLengths],
                hs \in [1..MaxEdges -> FileHeis] :
                graphml = [i \in 1..MaxEdges |->
                             Edge(i, i + 1, 0, ls[i], Missing, hs[i],
                                  Missing, Missing)]

\* phase2_processing: the HEI / cool_cost loop over G_final
Phase2Derive ==
    /\ pc = "phase2"
    /\ LET r == EdgePass(Derived(G.edges), G.edges)
       IN  /\ G' = [G EXCEPT !.edges = r.edges]
           /\ pc' = IF r.ok THEN "derived" ELSE "crashed"
    /\ UNCHANGED <<graphml, sp_call, appVars, phase2Vars, nearestVars, locals>>

\* phase2_processing: the numeric enforcement loop
Phase2Enforce ==
    /\ pc = "derived"
    /\ LET r == EdgePass(Enforced(G.edges), G.edges)
       IN  /\ G' = [G EXCEPT !.edges = r.edges]
           /\ pc' = IF r.ok THEN "enforced" ELSE "crashed"
    /\ UNCHANGED <<graphml, sp_call, appVars, phase2Vars, nearestVars, locals>>

\* phase2_processing: ox.save_graphml(G_final, 'game_ready_city.graphml')
Phase2Save ==
    /\ pc = "enforced"
    /\ graphml' = save_graphml(G.edges)
    /\ pc' = "file"
    /\ UNCHANGED <<G, sp_call, appVars, phase2Vars, nearestVars, locals>>

\* app: load_data
AppLoad ==
    /\ pc = "file"
    /\ LET r == load_graphml(graphml)
       IN  IF r.ok
           THEN /\ G' = [nodes |-> ChainNodes(Len(graphml)), edges |-> r.edges]
                /\ pc' = "loaded"
           ELSE /\ G' = G
                /\ pc' = "crashed"
    /\ UNCHANGED <<graphml, sp_call, appVars, phase2Vars, nearestVars, locals>>

\* app: the recompute loop of a rerun under scenario sc; recomputes counts the
\* passes run so far, up to MaxReruns
RecomputeLoop ==
    /\ pc \in {"loaded", "recomputed"}
    /\ \E sc \in Scenarios :
          /\ scenario' = sc
          /\ heat_multiplier' = Multiplier(sc)
          /\ G' = [G EXCEPT !.edges = RecomputePass(G.edges, Multiplier(sc))]
    /\ pc' = "recomputed"
    /\ recomputes' = IF recomputes < MaxReruns THEN recomputes + 1 ELSE recomputes
    /\ UNCHANGED <<graphml, session_state, node_xy, ui, sp_call,
                   phase2Vars, nearestVars, locals>>

CostNext ==
    \/ Phase2Derive
    \/ Phase2Enforce
    \/ Phase2Save
    \/ AppLoad
    \/ RecomputeLoop

SpecCost == CostInit /\ [][CostNext]_vars

-----------------------------------------------------------------------------
(* C1.  After a cost pass every edge's cost is at least its length, with     *)
(* equality exactly when hei = 0 or the multiplier is 0: after the app's    *)
(* recompute loop for current_cost and the lengths and hei the loop read,   *)
(* and after phase 2's derivation for cool_cost (multiplier 10).            *)

AtLeastLength(cost, length, hei, m) ==
    /\ cost.k = "num"
    /\ length.k = "num"
    /\ hei.k = "num"
    /\ cost.v >= One * length.v
    /\ (cost.v = One * length.v) <=> (hei.v = 0 \/ m = 0)

C1_CostAtLeastLength ==
    /\ pc = "recomputed" =>
          \A e \in Range(G.edges) :
              AtLeastLength(e.current_cost, AppLength(e), AppHei(e), heat_multiplier)
    /\ pc = "derived" =>
          \A e \in Range(G.edges) :
              AtLeastLength(e.cool_cost, Float(Get(e.length, Num(DefaultLength))),
                            e.hei, Phase2Penalty)

(* C2.  The hei phase 2 stores and the hei the recompute loop uses lie in    *)
(* [0.0, 1.0], whatever the edge's green_score is.                          *)

InUnitRange(x) == x.k = "num" /\ 0 <= x.v /\ x.v <= One

C2_HeiInUnitRange ==
    /\ pc \in {"derived", "enforced"} =>
          \A e \in Range(G.edges) : InUnitRange(e.hei)
    /\ pc = "recomputed" =>
          \A e \in Range(G.edges) : InUnitRange(AppHei(e))

-----------------------------------------------------------------------------
(* C3.  The spec's end-to-end example: edges A->B (length 100, green 1.0),  *)
(* B->C (200, 0.0), A->C (250, 0.5), multiplier 10, a query from A to C.    *)
(* A, B, C are nodes 1, 2, 3.                                              *)

IsExampleEdge(e, u, v, length, green) ==
    /\ e.u = u /\ e.v = v
    /\ e.length = Num(length)
    /\ Float(e.green_score) = Num(green)

ExampleQueried ==
    /\ Len(G.edges) = 3
    /\ IsExampleEdge(G.edges[1], 1, 2, 100, 10)
    /\ IsExampleEdge(G.edges[2], 2, 3, 200, 0)
    /\ IsExampleEdge(G.edges[3], 1, 3, 250, 5)
    /\ heat_multiplier = StandardMultiplier
    /\ sp_call = <<1, 3>>

ExampleCosts ==
    /\ G.edges[1].current_cost = Num(100 * One)
    /\ G.edges[2].current_cost = Num(2200 * One)
    /\ G.edges[3].current_cost = Num(1500 * One)
    /\ Float(G.edges[1].cool_cost) = Num(100 * One)
    /\ Float(G.edges[2].cool_cost) = Num(2200 * One)
    /\ Float(G.edges[3].cool_cost) = Num(1500 * One)

\* C3 as claimed: the costs are 100, 2200, 1500, the route minimising length
\* is A->B->C, the route minimising current_cost is A->C, and the two differ
C3_RoutesDiverge ==
    ExampleQueried =>
        /\ ExampleCosts
        /\ ~ui.error
        /\ session_state.route_fast = <<1, 2, 3>>
        /\ session_state.route_cool = <<1, 3>>
        /\ session_state.route_fast # session_state.route_cool

\* C3 amended: the costs are 100, 2200, 1500; the route minimising length is
\* A->C (250 m, less than 300 m by B), the route minimising current_cost is
\* A->C too (1500, less than 2300), and the two routes are the same
C3_RoutesCoincide ==
    ExampleQueried =>
        /\ ExampleCosts
        /\ ~ui.error
        /\ session_state.route_fast = <<1, 3>>
        /\ ui.len_fast = 250
        /\ session_state.route_cool = <<1, 3>>
        /\ ui.len_cool = 250

C3_Witness ==
    /\ ExampleQueried
    /\ "route_cool" \in DOMAIN session_state
    /\ Len(session_state.route_cool) = 2

(* C5.  shortest_path is only ever called with a source and a target of    *)
(* one weakly-connected component.                                         *)

SameComponent(g, s, t) ==
    \E i \in 1..Len(weakly_connected_components(g)) :
        {s, t} \subseteq weakly_connected_components(g)[i]

C5_QueryInOneComponent ==
    sp_call # NoQuery => SameComponent(G, sp_call[1], sp_call[2])

(* C6.  As claimed: the recompute loop runs once in a rerun that switches   *)
(* the scenario and not at all in a rerun that leaves it unchanged.         *)

C6_OncePerSwitch ==
    [][recomputes' = recomputes + (IF scenario' # scenario THEN 1 ELSE 0)]_vars

\* C6 amended: the recompute loop runs exactly once in every rerun whose
\* session holds a start endpoint, whether or not the scenario changed, and
\* not at all in a rerun whose session holds none
C6_OncePerRerunWithStart ==
    [][recomputes' = recomputes
                       + (IF "start" \in DOMAIN session_state' THEN 1 ELSE 0)]_vars

C6_Witness ==
    /\ recomputes = 2
    /\ scenario = "Standard"
    /\ "start" \in DOMAIN session_state

(* C7.  A query whose fastest or coolest route has fewer than 2 nodes is    *)
(* reported as no valid route and nothing of it is drawn: no line, no       *)
(* marker; after a path-search failure both stored routes are empty.        *)

C7_DegenerateNotDrawn ==
    (/\ sp_call # NoQuery
     /\ \/ Len(session_state.route_fast) < 2
        \/ Len(session_state.route_cool) < 2)
    =>  /\ ui.warning
        /\ ui.draw.lines = {}
        /\ ui.draw.markers = {}
        /\ ui.error => /\ session_state.route_fast = <<>>
                       /\ session_state.route_cool = <<>>

-----------------------------------------------------------------------------
(* _nearest_node on its own: any query point of the grid, any node          *)
(* dictionary of up to MaxLookupNodes entries.  Entry i holds node id       *)
(* n + 1 - i, so the first entry is not the one with the least id; two      *)
(* entries may hold the same point.                                         *)

LookupDicts ==
    UNION {{[i \in 1..n |-> [id |-> n + 1 - i, pt |-> pts[i]]] :
              pts \in [1..n -> Grid]} : n \in 0..MaxLookupNodes}

NearestInit ==
    /\ pc = "lookup"
    /\ G = NoGraph
    /\ graphml = <<>>
    /\ sp_call = NoQuery
    /\ scenario = "Standard"
    /\ heat_multiplier = StandardMultiplier
    /\ session_state = EmptyDict
    /\ ui = [error |-> FALSE, warning |-> FALSE, len_fast |-> 0, len_cool |-> 0,
             draw |-> EmptyMap]
    /\ recomputes = 0
    /\ Phase2Idle
    /\ ScriptIdle
    /\ node_xy \in LookupDicts
    /\ query \in Grid
    /\ nearest = [node |-> None, dist |-> Inf]

Lookup ==
    /\ pc = "lookup"
    /\ nearest' = _nearest_node(query, node_xy)
    /\ pc' = "found"
    /\ UNCHANGED <<G, graphml, sp_call, appVars, phase2Vars, query, locals>>

NearestNext == Lookup

SpecNearest == NearestInit /\ [][NearestNext]_vars

(* C8.  _nearest_node returns the node at the least haversine distance from *)
(* the query and that distance, the first such node in iteration order      *)
(* when several are equally near, and (None, +infinity) for an empty        *)
(* dictionary.                                                              *)

C8_NearestIsFirstMinimum ==
    pc = "found" =>
        IF Len(node_xy) = 0
        THEN nearest = [node |-> None, dist |-> Inf]
        ELSE \E i \in 1..Len(node_xy) :
                /\ nearest.node = node_xy[i].id
                /\ nearest.dist = Num(_haversine(query, node_xy[i].pt))
                /\ \A j \in 1..Len(node_xy) :
                      _haversine(query, node_xy[j].pt)
                          >= _haversine(query, node_xy[i].pt)
                /\ \A j \in 1..(i - 1) :
                      _haversine(query, node_xy[j].pt)
                          > _haversine(query, node_xy[i].pt)

\* the spec's example, with a third node on the first one's point: nodes at
\* (34.0, -118.0), (34.001, -118.0), (34.0, -118.0), query (34.0, -118.0);
\* the first node is returned, at distance 0
C8_Witness ==
    /\ pc = "found"
    /\ query = <<0, 0>>
    /\ Len(node_xy) = 3
    /\ node_xy[1].pt = <<0, 0>>
    /\ node_xy[2].pt = <<1, 0>>
    /\ node_xy[3].pt = <<0, 0>>
    /\ nearest = [node |-> node_xy[1].id, dist |-> Num(0)]

-----------------------------------------------------------------------------
(* phase2_processing: score injection.  gdf_scored has a flag for a 3-level  *)
(* MultiIndex, a flag for u, v, key columns, and its rows; a row carries    *)
(* its own (u, v, key) when the frame is keyed.  edges is the index of the  *)
(* original graph's edges.                                                  *)

NoKey == <<None, None, None>>

\* a fallback that also takes a frame with fewer rows than the graph has edges
IndexHowAtMost(gdf, es) ==
    IF gdf.multi_index THEN "index"
    ELSE IF gdf.columns THEN "columns"
    ELSE IF Len(gdf.rows) <= Len(es) THEN "position"
    ELSE "error"

\* the if / elif chain that gives the scored frame its (u, v, key) index
IndexHow(gdf, es) ==
    IF gdf.multi_index THEN "index"
    ELSE IF gdf.columns THEN "columns"
    ELSE IF Len(gdf.rows) = Len(es) THEN "position"
    ELSE "error"

IndexOf(gdf, es, how) ==
    [i \in 1..Len(gdf.rows) |-> IF how = "position" THEN es[i] ELSE gdf.rows[i].uvk]

\* ox.graph_from_gdfs(nodes, gdf_scored_indexed): one edge per row, keyed by
\* the row's index entry, carrying the row's attributes
graph_from_gdfs(nodes, rows, index) ==
    [nodes |-> nodes,
     edges |-> [i \in 1..Len(rows) |->
                  Edge(index[i][1], index[i][2], index[i][3], rows[i].length,
                       rows[i].green_score, Missing, Missing, Missing)]]

Phase2Inject ==
    /\ pc = "inject"
    /\ LET how == IndexHow(gdf_scored, edges)
       IN  IF how = "error"
           THEN /\ pc' = "ValueError"
                /\ UNCHANGED <<G, gdf_scored_indexed>>
           ELSE /\ gdf_scored_indexed' =
                       [how |-> how, index |-> IndexOf(gdf_scored, edges, how)]
                /\ G' = graph_from_gdfs(ChainNodes(Len(edges)), gdf_scored.rows,
                                        IndexOf(gdf_scored, edges, how))
                /\ pc' = "phase2"
    /\ UNCHANGED <<graphml, sp_call, appVars, gdf_scored, edges, nearestVars, locals>>

InjectGreens == {Num(0), Num(5), Num(10)}

InjectInit ==
    /\ pc = "inject"
    /\ G = NoGraph
    /\ graphml = <<>>
    /\ sp_call = NoQuery
    /\ AppIdle
    /\ NearestIdle
    /\ ScriptIdle
    /\ edges = [i \in 1..MaxEdges |-> <<i, i + 1, 0>>]
    /\ gdf_scored_indexed = NoFrame
    /\ \E multi_index \in BOOLEAN, columns \in BOOLEAN, n \in 0..(MaxEdges + 1) :
          \E gs \in [1..n -> InjectGreens] :
              gdf_scored =
                  [multi_index |-> multi_index, columns |-> columns,
                   rows |-> [i \in 1..n |->
                               [uvk |-> IF multi_index \/ columns
                                        THEN <<i, i + 1, 0>> ELSE NoKey,
                                length |-> Num(100), green_score |-> gs[i]]]]

InjectNext ==
    \/ Phase2Inject
    \/ Phase2Derive
    \/ Phase2Enforce
    \/ Phase2Save

SpecInject == InjectInit /\ [][InjectNext]_vars

(* C10.  Score injection takes the frame's own key when it has a 3-level    *)
(* index or u, v, key columns; otherwise matches by position when the row   *)
(* count equals the edge count; otherwise raises, and then no scored graph  *)
(* is ever built, weighted or saved.                                        *)

C10_InjectionModes ==
    LET keyed == gdf_scored.multi_index \/ gdf_scored.columns
        positional == ~keyed /\ Len(gdf_scored.rows) = Len(edges)
    IN  /\ pc = "inject" => G = NoGraph /\ graphml = <<>>
        /\ (pc # "inject" /\ keyed) =>
              /\ pc # "ValueError"
              /\ gdf_scored_indexed.how \in {"index", "columns"}
              /\ \A i \in 1..Len(gdf_scored.rows) :
                    gdf_scored_indexed.index[i] = gdf_scored.rows[i].uvk
              /\ Len(G.edges) = Len(gdf_scored.rows)
        /\ (pc # "inject" /\ positional) =>
              /\ pc # "ValueError"
              /\ gdf_scored_indexed.how = "position"
              /\ gdf_scored_indexed.index = edges
              /\ \A i \in 1..Len(edges) :
                    <<G.edges[i].u, G.edges[i].v, G.edges[i].key>> = edges[i]
        /\ (~keyed /\ ~positional) =>
              /\ pc \in {"inject", "ValueError"}
              /\ G = NoGraph
              /\ gdf_scored_indexed = NoFrame
              /\ graphml = <<>>

C10_Witness ==
    /\ pc = "ValueError"
    /\ ~gdf_scored.multi_index
    /\ ~gdf_scored.columns
    /\ Len(gdf_scored.rows) = 1
    /\ Len(edges) = 2

-----------------------------------------------------------------------------
(* test_route: the diagnostic script *)

\* the sanity check of one edge: [ok, data, missing, fixed]; ok = FALSE when
\* float(data.get('length', 10.0)) raises
SanityEdge(data) ==
    LET lraw == Get(data.length, Num(DefaultLength))
        fallback == AsCost(Float(lraw))
    IN  IF data.cool_cost.k = "missing"
        THEN [ok |-> ~FloatRaises(lraw), missing |-> 1, fixed |-> 0,
              data |-> IF FloatRaises(lraw) THEN data
                       ELSE [data EXCEPT !.cool_cost = fallback]]
        ELSE IF ~FloatRaises(data.cool_cost)
        THEN [ok |-> TRUE, missing |-> 0, fixed |-> 0,
              data |-> [data EXCEPT !.cool_cost = Float(data.cool_cost)]]
        ELSE IF data.cool_cost.k = "liststr"
        THEN [ok |-> TRUE, missing |-> 0, fixed |-> 1,
              data |-> [data EXCEPT !.cool_cost = Num(data.cool_cost.v)]]
        ELSE [ok |-> ~FloatRaises(lraw), missing |-> 0,
              fixed |-> IF FloatRaises(lraw) THEN 0 ELSE 1,
              data |-> IF FloatRaises(lraw) THEN data
                       ELSE [data EXCEPT !.cool_cost = fallback]]

RECURSIVE SanityPass(_, _, _, _)
SanityPass(es, i, missing_cool, fixed_cool) ==
    IF i > Len(es)
    THEN [ok |-> TRUE, edges |-> es, missing_cool |-> missing_cool,
          fixed_cool |-> fixed_cool]
    ELSE LET r == SanityEdge(es[i])
         IN  IF r.ok
             THEN SanityPass([es EXCEPT ![i] = r.data], i + 1,
                             missing_cool + r.missing, fixed_cool + r.fixed)
             ELSE [ok |-> FALSE, edges |-> es, missing_cool |-> missing_cool,
                   fixed_cool |-> fixed_cool]

\* the diagnostics' count of cool_cost values that are None, no number, or NaN
IsInvalidCool(x) == x.k # "num"

CountInvalid(es) == Cardinality({i \in 1..Len(es) : IsInvalidCool(es[i].cool_cost)})

ScriptStart ==
    [missing_cool |-> 0, fixed_cool |-> 0, invalid_cool |-> 0,
     component_count |-> 0, largest_size |-> 0, start_node |-> None,
     end_node |-> None, has_fast |-> FALSE, route_fast |-> <<>>, len_fast |-> 0,
     has_cool |-> FALSE, route_cool |-> <<>>, len_cool_actual |-> 0]

\* "Sanity check: ensure every edge has a numeric cool_cost"
ScriptSanity ==
    /\ pc = "script"
    /\ LET r == SanityPass(G.edges, 1, 0, 0)
       IN  /\ G' = [G EXCEPT !.edges = r.edges]
           /\ locals' = [locals EXCEPT !.missing_cool = r.missing_cool,
                                       !.fixed_cool = r.fixed_cool]
           /\ pc' = IF r.ok THEN "sanitized" ELSE "crashed"
    /\ UNCHANGED <<graphml, sp_call, appVars, phase2Vars, nearestVars>>

\* "Diagnostics: graph connectivity and weight health"
ScriptDiagnose ==
    /\ pc = "sanitized"
    /\ LET components == weakly_connected_components(G)
           largest_comp == IF Len(components) > 0 THEN MaxByLen(components) ELSE {}
       IN  locals' = [locals EXCEPT !.invalid_cool = CountInvalid(G.edges),
                                    !.component_count = Len(components),
                                    !.largest_size = Cardinality(largest_comp)]
    /\ pc' = "diagnosed"
    /\ UNCHANGED <<G, graphml, sp_call, appVars, phase2Vars, nearestVars>>

\* The endpoints: comp_nodes[0] and a later element of the largest component
\* (in the set's iteration order, which is not specified) are picked and then
\* replaced by nodes[40], nodes[90], which raises IndexError on a shorter list
ScriptPick ==
    /\ pc = "diagnosed"
    /\ LET components == weakly_connected_components(G)
           largest_comp == IF Len(components) > 0 THEN MaxByLen(components) ELSE {}
           picks == IF largest_comp = {}
                    THEN {<<locals.start_node, locals.end_node>>}
                    ELSE {p \in largest_comp \X largest_comp :
                            p[1] # p[2] \/ Cardinality(largest_comp) = 1}
       IN  IF Len(G.nodes) > EndIndex
           THEN /\ locals' = [locals EXCEPT !.start_node = G.nodes[StartIndex + 1],
                                            !.end_node = G.nodes[EndIndex + 1]]
                /\ pc' = "picked"
           ELSE /\ \E p \in picks :
                      locals' = [locals EXCEPT !.start_node = p[1],
                                               !.end_node = p[2]]
                /\ pc' = "IndexError"
    /\ UNCHANGED <<G, graphml, sp_call, appVars, phase2Vars, nearestVars>>

\* The two routes, each in its own try / except
ScriptRoute ==
    /\ pc = "picked"
    /\ sp_call' = <<locals.start_node, locals.end_node>>
    /\ LET fast == ShortestPaths(G, locals.start_node, locals.end_node, "length")
           cool == ShortestPaths(G, locals.start_node, locals.end_node, "cool_cost")
       IN  IF fast = {}
           THEN locals' = locals
           ELSE \E a \in fast, b \in cool :
                    locals' = [locals EXCEPT
                                 !.has_fast = TRUE, !.route_fast = a,
                                 !.len_fast = path_weight(G, a, "length"),
                                 !.has_cool = TRUE, !.route_cool = b,
                                 !.len_cool_actual = path_weight(G, b, "length")]
    /\ pc' = "routed"
    /\ UNCHANGED <<G, graphml, appVars, phase2Vars, nearestVars>>

\* The small graphs the script is run on: nodes and (u, v, key) of the edges
DiagTopologies ==
    { [nodes |-> <<>>, edges |-> <<>>],
      [nodes |-> <<1, 2>>, edges |-> <<>>],
      [nodes |-> <<1, 2, 3, 4>>, edges |-> <<(<<2, 3, 0>>), <<4, 3, 0>>>>],
      [nodes |-> <<1, 2, 3, 4, 5>>,
       edges |-> <<(<<1, 2, 0>>), <<3, 4, 0>>, <<5, 4, 0>>>>] }

\* what the GraphML file may hold for an edge
DiagLengths == {NumStr(100), NaNStr, Missing}

DiagCools == {NumStr(1000), NaNStr, Str, ListStr(12), Missing}

\* Graphs of EndIndex + 1 nodes, long enough for nodes[90], as phase2 saves
\* them.  Between nodes[40] and nodes[90]: "detour", a direct hot edge and a
\* longer two-edge way with a cool second half; "apart", no connection;
\* "oneway", a single edge from nodes[90] back to nodes[40].
LongShapes == {"detour", "apart", "oneway"}

LongEdge(u, v, length, hei) ==
    SaveEdge(Edge(u, v, 0, Num(length), Num(One - hei), Num(hei),
                  Cost(Num(length), Num(hei), Phase2Penalty), Missing))

LongGraph(shape) ==
    LET a == StartIndex + 1
        m == StartIndex + 2
        b == EndIndex + 1
    IN  [nodes |-> [i \in 1..b |-> i],
         edges |->
            CASE shape = "detour" ->
                    <<LongEdge(a, m, 100, One), LongEdge(m, b, 200, 0),
                      LongEdge(a, b, 250, DefaultHei)>>
              [] shape = "apart" ->
                    <<LongEdge(a, m, 100, One), LongEdge(m + 1, b, 200, 0)>>
              [] OTHER -> <<LongEdge(b, a, 250, DefaultHei)>>]

DiagInit ==
    /\ pc = "script"
    /\ sp_call = NoQuery
    /\ AppIdle
    /\ Phase2Idle
    /\ NearestIdle
    /\ locals = ScriptStart
    /\ \/ \E t \in DiagTopologies :
             \E ls \in [1..Len(t.edges) -> DiagLengths],
                cs \in [1..Len(t.edges) -> DiagCools] :
                 /\ graphml = [i \in 1..Len(t.edges) |->
                                 Edge(t.edges[i][1], t.edges[i][2], t.edges[i][3],
                                      ls[i], NumStr(5), NumStr(5), cs[i], Missing)]
                 /\ G = [nodes |-> t.nodes, edges |-> load_graphml(graphml).edges]
       \/ \E shape \in LongShapes :
             /\ graphml = LongGraph(shape).edges
             /\ G = [nodes |-> LongGraph(shape).nodes,
                     edges |-> load_graphml(graphml).edges]

DiagNext ==
    \/ ScriptSanity
    \/ ScriptDiagnose
    \/ ScriptPick
    \/ ScriptRoute

SpecDiag == DiagInit /\ [][DiagNext]_vars

(* C4.  Once the sanity pass has run, and before the first shortest_path    *)
(* call, no edge's cool_cost is missing, non-numeric or NaN: every edge     *)
(* whose stored weight was so has its length as weight (10.0 when the       *)
(* length is missing or invalid), and the two counters together count       *)
(* those edges.                                                             *)

WasMalformed(x) == x.k \in {"missing", "str", "liststr", "nan", "nanstr"}

RepairValue(data) ==
    LET length == Get(data.length, Num(DefaultLength))
    IN  IF FloatRaises(length) \/ Float(length).k = "nan"
        THEN Num(One * DefaultLength)
        ELSE AsCost(Float(length))

C4_SanitizedWeights ==
    pc \in {"sanitized", "diagnosed", "picked"} =>
        /\ \A i \in 1..Len(G.edges) :
              /\ G.edges[i].cool_cost.k = "num"
              /\ WasMalformed(graphml[i].cool_cost) =>
                    G.edges[i].cool_cost = RepairValue(G.edges[i])
        /\ locals.missing_cool + locals.fixed_cool =
              Cardinality({i \in 1..Len(graphml) : WasMalformed(graphml[i].cool_cost)})

(* C9.  The diagnostic's component count is the number of weakly-connected  *)
(* components (classes of nodes joined by edges taken in either direction)  *)
(* and its largest size is the node count of the biggest class, 0 for a     *)
(* graph without nodes.                                                     *)

RECURSIVE MergeEdges(_, _, _)
MergeEdges(classes, es, i) ==
    IF i > Len(es) THEN classes
    ELSE LET cu == CHOOSE c \in classes : es[i].u \in c
             cv == CHOOSE c \in classes : es[i].v \in c
         IN  MergeEdges((classes \ {cu, cv}) \cup {cu \cup cv}, es, i + 1)

Classes(g) == MergeEdges({{n} : n \in NodeSet(g)}, g.edges, 1)

LargestClassSize(g) ==
    IF Classes(g) = {} THEN 0
    ELSE CHOOSE k \in {Cardinality(c) : c \in Classes(g)} :
             \A c \in Classes(g) : Cardinality(c) <= k

C9_ComponentReport ==
    pc \in {"diagnosed", "IndexError", "picked", "routed"} =>
        /\ locals.component_count = Cardinality(Classes(G))
        /\ locals.largest_size = LargestClassSize(G)

\* two disjoint clusters, {1, 2} and {3, 4, 5}: 2 components, the largest of 3
C9_Witness ==
    /\ pc = "diagnosed"
    /\ G.nodes = <<1, 2, 3, 4, 5>>
    /\ locals.component_count = 2
    /\ locals.largest_size = 3

-----------------------------------------------------------------------------
(* C11.  Whatever passes ran before, and under whichever multipliers, after *)
(* a recompute pass every edge's current_cost is the value the first pass   *)
(* on the freshly loaded graph gives under the same heat_multiplier: a      *)
(* repeated pass, or a return to a multiplier, changes no cost (NaN         *)
(* counting as the same value as NaN).                                      *)

FirstPass(m) == RecomputePass(load_graphml(graphml).edges, m)

C11_RecomputeIdempotent ==
    pc = "recomputed" =>
        \A i \in 1..Len(G.edges) :
            G.edges[i].current_cost = FirstPass(heat_multiplier)[i].current_cost

\* at least two passes have run, and an edge carries a heat penalty
C11_Witness ==
    /\ pc = "recomputed"
    /\ recomputes >= 2
    /\ \E i \in 1..Len(G.edges) :
          /\ G.edges[i].current_cost.k = "num"
          /\ G.edges[i].current_cost.v > One * AppLength(G.edges[i]).v
          /\ AppLength(G.edges[i]).v > 0

-----------------------------------------------------------------------------
(* C12.  A derivation pass (phase 2's HEI loop, its numeric enforcement     *)
(* loop, the app's recompute loop), finished or stopped by an exception,    *)
(* leaves the nodes, the edges' identities, and every edge's length and     *)
(* green_score as they were; phase 2 writes only hei and cool_cost, the app *)
(* only current_cost.                                                       *)

Phase2PassStep == pc \in {"phase2", "derived"} /\ pc' \in {"derived", "enforced", "crashed"}

AppPassStep == pc \in {"loaded", "recomputed"} /\ pc' = "recomputed"

SameInputs(e, f) ==
    /\ f.u = e.u
    /\ f.v = e.v
    /\ f.key = e.key
    /\ f.length = e.length
    /\ f.green_score = e.green_score

FrameKept ==
    /\ G'.nodes = G.nodes
    /\ Len(G'.edges) = Len(G.edges)
    /\ \A i \in 1..Len(G.edges) :
          /\ SameInputs(G.edges[i], G'.edges[i])
          /\ Phase2PassStep => G'.edges[i].current_cost = G.edges[i].current_cost
          /\ AppPassStep =>
                /\ G'.edges[i].cool_cost = G.edges[i].cool_cost
                /\ G'.edges[i].hei = G.edges[i].hei

C12_DerivationFrame == [][(Phase2PassStep \/ AppPassStep) => FrameKept]_vars

\* phase 2's loop has derived hei and cool_cost of an edge from the defaults,
\* the edge having neither length nor green_score, and stored neither
C12_Witness ==
    /\ pc = "derived"
    /\ G.edges[1].length.k = "missing"
    /\ G.edges[1].green_score.k = "missing"
    /\ G.edges[1].hei = Num(One - DefaultGreen)
    /\ G.edges[1].cool_cost.k = "num"

-----------------------------------------------------------------------------
(* phase2_processing: _sanitize_edge_bool and its loop.  A Python value is  *)
(* a record of its type and content; a string is the sequence of its       *)
(* characters.  An edge here is [u, v, key, reversed, oneway].              *)

PyAbsent == [k |-> "absent", v |-> <<>>]
PyBool(b) == [k |-> "bool", v |-> b]
PyStr(cs) == [k |-> "str", v |-> cs]
PyList(xs) == [k |-> "list", v |-> xs]
PyTuple(xs) == [k |-> "tuple", v |-> xs]
PySet(xs) == [k |-> "set", v |-> xs]

\* str.lower() on the letters the strings below are written with
LowerChar(c) ==
    CASE c = "T" -> "t" [] c = "R" -> "r" [] c = "U" -> "u" [] c = "E" -> "e"
      [] c = "F" -> "f" [] c = "A" -> "a" [] c = "L" -> "l" [] c = "S" -> "s"
      [] c = "Y" -> "y" [] OTHER -> c

Lower(cs) == [i \in 1..Len(cs) |-> LowerChar(cs[i])]

RECURSIVE StripLeft(_)
StripLeft(cs) == IF cs # <<>> /\ cs[1] = " " THEN StripLeft(Tail(cs)) ELSE cs

RECURSIVE StripRight(_)
StripRight(cs) ==
    IF cs # <<>> /\ cs[Len(cs)] = " "
    THEN StripRight(SubSeq(cs, 1, Len(cs) - 1)) ELSE cs

\* str.strip()
Strip(cs) == StripRight(StripLeft(cs))

\* bool(x)
Truthy(x) ==
    CASE x.k = "bool" -> x.v
      [] OTHER -> Len(x.v) > 0

TrueWords == {<<"t", "r", "u", "e">>, <<"1">>}

FalseWords == {<<"f", "a", "l", "s", "e">>, <<"0">>}

\* _sanitize_edge_bool(data, key) on the value val of data[key]: [ok, val],
\* ok = FALSE when val[0] raises TypeError (a set cannot be indexed)
SanitizeBool(val) ==
    IF val.k = "absent" THEN [ok |-> TRUE, val |-> val]
    ELSE IF val.k \in {"list", "tuple", "set"}
    THEN IF Len(val.v) = 0 THEN [ok |-> TRUE, val |-> PyBool(FALSE)]
         ELSE IF val.k = "set" THEN [ok |-> FALSE, val |-> val]
         ELSE [ok |-> TRUE, val |-> PyBool(Truthy(val.v[1]))]
    ELSE IF val.k = "str"
    THEN IF Lower(Strip(val.v)) \in TrueWords \cup FalseWords
         THEN [ok |-> TRUE, val |-> PyBool(Lower(Strip(val.v)) \in TrueWords)]
         ELSE [ok |-> TRUE, val |-> PyAbsent]
    ELSE [ok |-> TRUE, val |-> val]

\* the loop body: 'reversed' first, then 'oneway'
SanitizeEdgeBools(data) ==
    LET r == SanitizeBool(data.reversed)
        d1 == [data EXCEPT !.reversed = r.val]
        o == SanitizeBool(data.oneway)
    IN  IF ~r.ok THEN [ok |-> FALSE, data |-> data]
        ELSE IF ~o.ok THEN [ok |-> FALSE, data |-> d1]
        ELSE [ok |-> TRUE, data |-> [d1 EXCEPT !.oneway = o.val]]

BoolsSanitized(es) == [i \in 1..Len(es) |-> SanitizeEdgeBools(es[i])]

\* "6. Sanitize boolean-like edge attributes for GraphML"
Phase2SanitizeBools ==
    /\ pc = "bools"
    /\ LET r == EdgePass(BoolsSanitized(G.edges), G.edges)
       IN  /\ G' = [G EXCEPT !.edges = r.edges]
           /\ pc' = IF r.ok THEN "bools_done" ELSE "TypeError"
    /\ UNCHANGED <<graphml, sp_call, appVars, phase2Vars, nearestVars, locals>>

\* the values an edge's 'reversed' may arrive with
BoolInputs ==
    { PyAbsent, PyBool(TRUE), PyBool(FALSE),
      PyStr(<<"t", "r", "u", "e">>), PyStr(<<"f", "a", "l", "s", "e">>),
      PyStr(<<"1">>), PyStr(<<"0">>), PyStr(<<" ", "T", "r", "u", "e", " ">>),
      PyStr(<<"F", "A", "L", "S", "E">>), PyStr(<<"y", "e", "s">>),
      PyStr(<<"[", " ", "f", "a", "l", "s", "e", ",", " ", "t", "r", "u", "e", " ", "]">>),
      PyStr(<<>>),
      PyList(<<PyBool(FALSE), PyBool(TRUE)>>), PyList(<<PyBool(TRUE)>>),
      PyList(<<PyStr(<<"f", "a", "l", "s", "e">>), PyStr(<<"t", "r", "u", "e">>)>>),
      PyList(<<PyStr(<<"t", "r", "u", "e">>)>>), PyList(<<PyStr(<<"0">>)>>),
      PyList(<<>>), PyTuple(<<PyBool(FALSE)>>), PySet(<<PyBool(TRUE)>>),
      PySet(<<>>) }

\* the values 'oneway' may arrive with
OnewayInputs ==
    { PyAbsent, PyBool(TRUE), PyStr(<<"F", "a", "l", "s", "e">>),
      PyList(<<PyBool(FALSE), PyBool(TRUE)>>), PySet(<<PyBool(FALSE)>>) }

BoolInit ==
    /\ pc = "bools"
    /\ graphml = <<>>
    /\ sp_call = NoQuery
    /\ AppIdle
    /\ NearestIdle
    /\ ScriptIdle
    /\ edges = <<(<<1, 2, 0>>), <<2, 3, 0>>>>
    /\ gdf_scored_indexed = [how |-> "index", index |-> edges]
    /\ \E r1 \in BoolInputs, o1 \in OnewayInputs, r2 \in OnewayInputs :
          /\ gdf_scored =
                [multi_index |-> TRUE, columns |-> FALSE,
                 rows |-> <<[uvk |-> edges[1], reversed |-> r1, oneway |-> o1],
                            [uvk |-> edges[2], reversed |-> r2, oneway |-> r1]>>]
          /\ G = [nodes |-> ChainNodes(2),
                  edges |-> [i \in 1..2 |->
                               [u |-> edges[i][1], v |-> edges[i][2],
                                key |-> edges[i][3],
                                reversed |-> gdf_scored.rows[i].reversed,
                                oneway |-> gdf_scored.rows[i].oneway]]]

BoolNext == Phase2SanitizeBools

SpecBool == BoolInit /\ [][BoolNext]_vars

(* C13.  After the boolean sanitization pass each edge's 'oneway' and       *)
(* 'reversed' is absent or a true boolean that matches the encoded input:   *)
(* "true" / "1", or a list whose first element encodes true, give True;     *)
(* "false" / "0", or a list whose first element encodes false, give False;  *)
(* a malformed value has been removed.                                      *)

Encoded(val) ==
    IF val.k = "bool" THEN val
    ELSE IF val.k = "str" /\ Lower(Strip(val.v)) \in TrueWords THEN PyBool(TRUE)
    ELSE IF val.k = "str" /\ Lower(Strip(val.v)) \in FalseWords THEN PyBool(FALSE)
    ELSE IF val.k \in {"list", "tuple"} /\ Len(val.v) > 0
              /\ val.v[1].k \in {"bool", "str"}
    THEN (IF val.v[1].k = "bool" THEN val.v[1]
          ELSE IF Lower(Strip(val.v[1].v)) \in TrueWords THEN PyBool(TRUE)
          ELSE IF Lower(Strip(val.v[1].v)) \in FalseWords THEN PyBool(FALSE)
          ELSE PyAbsent)
    ELSE PyAbsent

-----------------------------------------------------------------------------
(* app: two browser sessions.  st.cache_resource hands every session the    *)
(* same graph object, and each session runs the script in a thread of its  *)
(* own, so the reruns of two sessions interleave between any two            *)
(* iterations of the recompute loop.  Here pc and locals are per session:   *)
(* locals[s] holds the rerun's scenario and heat_multiplier, the loop's     *)
(* position i, the current_cost values the coolest-path query read, the     *)
(* route it returned, and whether another session's rerun overlapped this   *)
(* one.                                                                     *)

Sessions == {1, 2}

\* the cached graph: A -> B (100 m, hei 1.0), B -> C (200 m, hei 0.0),
\* A -> C (250 m, hei 0.5), as phase 2 saves it
SharedGraph ==
    [nodes |-> <<1, 2, 3>>,
     edges |-> load_graphml(Phase2File(
                   <<Edge(1, 2, 0, Num(100), Num(0), Missing, Missing, Missing),
                     Edge(2, 3, 0, Num(200), Num(10), Missing, Missing, Missing),
                     Edge(1, 3, 0, Num(250), Num(5), Missing, Missing, Missing)>>)).edges]

NoRerun ==
    [scenario |-> "Standard", heat_multiplier |-> StandardMultiplier, i |-> 0,
     read |-> <<>>, route_cool |-> <<>>, overlapped |-> FALSE]

InRerun(s) == pc[s] \in {"recompute", "query"}

SharedInit ==
    /\ pc = [s \in Sessions |-> "idle"]
    /\ locals = [s \in Sessions |-> NoRerun]
    /\ G = SharedGraph
    /\ graphml = <<>>
    /\ sp_call = NoQuery
    /\ AppIdle
    /\ Phase2Idle
    /\ NearestIdle

\* A rerun of session s starts with 'start' and 'end' in its session state:
\* the radio gives the scenario and the multiplier
StartRerun(s) ==
    /\ pc[s] \in {"idle", "done"}
    /\ \E sc \in Scenarios :
          locals' = [t \in Sessions |->
                       IF t = s
                       THEN [scenario |-> sc, heat_multiplier |-> Multiplier(sc),
                             i |-> 1, read |-> <<>>, route_cool |-> <<>>,
                             overlapped |-> \E o \in Sessions \ {s} : InRerun(o)]
                       ELSE IF InRerun(t)
                       THEN [locals[t] EXCEPT !.overlapped = TRUE]
                       ELSE locals[t]]
    /\ pc' = [pc EXCEPT ![s] = "recompute"]
    /\ UNCHANGED <<G, graphml, sp_call, appVars, phase2Vars, nearestVars>>

\* one iteration of session s's recompute loop
RecomputeStep(s) ==
    /\ pc[s] = "recompute"
    /\ G' = [G EXCEPT !.edges[locals[s].i] =
                 RecomputeEdge(G.edges[locals[s].i], locals[s].heat_multiplier)]
    /\ locals' = [locals EXCEPT ![s].i = locals[s].i + 1]
    /\ pc' = [pc EXCEPT ![s] = IF locals[s].i = Len(G.edges)
                                THEN "query" ELSE "recompute"]
    /\ UNCHANGED <<graphml, sp_call, appVars, phase2Vars, nearestVars>>

\* session s's coolest-path query, from the first node to the last
CoolQuery(s) ==
    /\ pc[s] = "query"
    /\ sp_call' = <<G.nodes[1], G.nodes[Len(G.nodes)]>>
    /\ \E route \in ShortestPaths(G, G.nodes[1], G.nodes[Len(G.nodes)],
                                  "current_cost") :
          locals' = [locals EXCEPT
                       ![s].read = [i \in 1..Len(G.edges) |-> G.edges[i].current_cost],
                       ![s].route_cool = route]
    /\ pc' = [pc EXCEPT ![s] = "done"]
    /\ UNCHANGED <<G, graphml, appVars, phase2Vars, nearestVars>>

SharedNext == \E s \in Sessions : StartRerun(s) \/ RecomputeStep(s) \/ CoolQuery(s)

SpecShared == SharedInit /\ [][SharedNext]_vars

(* C14.  A session whose rerun ran from its first loop iteration to its     *)
(* query with no other session's rerun overlapping it read, in its          *)
(* coolest-path query, only costs derived from its own multiplier.  (When   *)
(* reruns of sessions with different scenarios interleave, a query that     *)
(* reads a cost derived from the other session's multiplier is reachable:   *)
(* C14_Witness.)                                                            *)

OwnCost(s, i) == Cost(AppLength(G.edges[i]), AppHei(G.edges[i]), locals[s].heat_multiplier)

ReadForeignCost(s) ==
    /\ pc[s] = "done"
    /\ \E i \in 1..Len(G.edges) : locals[s].read[i] # OwnCost(s, i)

C14_SerialReadsOwnCosts ==
    \A s \in Sessions :
        (pc[s] = "done" /\ ~locals[s].overlapped) => ~ReadForeignCost(s)

\* a query of the Standard session read a cost computed with the Heatwave
\* session's multiplier, and chose a route by it
C14_Witness ==
    \E s \in Sessions, t \in Sessions :
        /\ s # t
        /\ locals[s].scenario = "Standard"
        /\ locals[t].scenario = "Heatwave"
        /\ locals[s].overlapped
        /\ pc[s] = "done"
        /\ \E i \in 1..Len(G.edges) :
              /\ locals[s].read[i] # OwnCost(s, i)
              /\ locals[s].read[i] =
                    Cost(AppLength(G.edges[i]), AppHei(G.edges[i]), HeatwaveMultiplier)
        /\ Len(locals[s].route_cool) > 1

-----------------------------------------------------------------------------
(* C15.  In one session, whenever a rerun has executed the shortest-path    *)
(* queries, heat_multiplier is the selected scenario's (10 Standard, 30     *)
(* Heatwave), every edge's current_cost is length * (1 + hei * m) for that  *)
(* multiplier, and the routes stored in the session state are shortest      *)
(* paths, by length and by that cost, between the session state's start and *)
(* end (both empty when routing failed); the map is drawn from them.        *)

SelectedMultiplier ==
    IF scenario = "Heatwave" THEN HeatwaveMultiplier ELSE StandardMultiplier

C15_QueryUsesCurrentScenario ==
    sp_call # NoQuery =>
        /\ heat_multiplier = SelectedMultiplier
        /\ \A i \in 1..Len(G.edges) :
              G.edges[i].current_cost =
                  Cost(AppLength(G.edges[i]), AppHei(G.edges[i]), SelectedMultiplier)
        /\ sp_call = <<session_state.start, session_state.end>>
        /\ IF ui.error
           THEN session_state.route_fast = <<>> /\ session_state.route_cool = <<>>
           ELSE /\ session_state.route_fast \in
                      ShortestPaths(G, session_state.start, session_state.end, "length")
                /\ session_state.route_cool \in
                      ShortestPaths(G, session_state.start, session_state.end,
                                    "current_cost")
        /\ ui.draw = Render(session_state, node_xy)

\* a route was found under Standard, then the scenario was switched and the
\* queries ran again under Heatwave
C15_Witness ==
    /\ scenario = "Heatwave"
    /\ recomputes = 2
    /\ sp_call # NoQuery
    /\ ~ui.error
    /\ Len(session_state.route_cool) > 1
    /\ \E i \in 1..Len(G.edges) : AppHei(G.edges[i]).v > 0

-----------------------------------------------------------------------------
(* app: the route metrics, on graphs with parallel edges and a detour.  The *)
(* session has its endpoints chosen; every rerun recomputes and routes.     *)

\* nodes 1, 2, 3; two parallel edges 1 -> 2, then 2 -> 3 and the direct 1 -> 3
RouteTopology ==
    [nodes |-> <<1, 2, 3>>,
     edges |-> <<(<<1, 2, 0>>), <<1, 2, 1>>, <<2, 3, 0>>, <<1, 3, 0>>>>]

\* (length in metres, green_score in tenths): short or long, bare or green
RoutePairs == {<<100, 0>>, <<100, 10>>, <<250, 0>>, <<250, 10>>}

RouteGraphs ==
    {[nodes |-> RouteTopology.nodes,
      edges |-> load_graphml(Phase2File(Phase2Input(RouteTopology.edges, a))).edges] :
        a \in [1..Len(RouteTopology.edges) -> RoutePairs]}

RouteInit ==
    /\ pc = "app"
    /\ G \in RouteGraphs
    /\ graphml = <<>>
    /\ scenario = "Standard"
    /\ heat_multiplier = StandardMultiplier
    /\ \E a \in NodeSet(G), b \in NodeSet(G) :
          session_state = DictSet(DictSet(EmptyDict, "start", a), "end", b)
    /\ node_xy = <<>>
    /\ ui = [error |-> FALSE, warning |-> FALSE, len_fast |-> 0, len_cool |-> 0,
             draw |-> EmptyMap]
    /\ recomputes = 0
    /\ sp_call = NoQuery
    /\ Phase2Idle
    /\ NearestIdle
    /\ ScriptIdle

RouteNext ==
    \/ SelectScenario
    \/ OtherWidget

SpecRoute == RouteInit /\ [][RouteNext]_vars

(* C16.  Whenever both routes were found, the length reported for the       *)
(* coolest route is at least the length reported for the fastest one        *)
(* (len_cool - len_fast >= 0), under either multiplier, for every pair of   *)
(* endpoints, and with parallel edges of different lengths and costs.       *)

C16_CoolNotShorter ==
    (sp_call # NoQuery /\ ~ui.error) => ui.len_cool >= ui.len_fast

\* the parallel edges 1 -> 2 differ in length and the shorter is the costlier,
\* and the coolest route is reported strictly longer than the fastest
C16_Witness ==
    /\ sp_call = <<1, 3>>
    /\ ~ui.error
    /\ ui.len_cool > ui.len_fast
    /\ \E e \in Parallel(G, 1, 2), f \in Parallel(G, 1, 2) :
          /\ e.length.v < f.length.v
          /\ e.current_cost.v > f.current_cost.v

=============================================================================
